---- MODULE Spec2Model ----
(***************************************************************************)
(* Model of handCBCTLogic (handCBCT/handCBCTLib/Logic.py): the setup       *)
(* sequence, the weight download and the segmentation entry point.         *)
(*                                                                         *)
(* Every public method is one action.  A method body is an operator on a   *)
(* frame record: the object's fields, the filesystem below the module's    *)
(* cache directory, the ordered list of calls made on the collaborators    *)
(* (events), the pending Python exception (exc) and the return value       *)
(* (ret).  Statements are chained with Then, which skips the rest of the   *)
(* body once an exception is pending, as Python does.                      *)
(***************************************************************************)
EXTENDS Naturals, Sequences, FiniteSets, TLC

VARIABLES
    segmentationLogic,      \* 0 is None, n > 0 is the n-th engine constructed
    modelParameters,        \* NoneParams, or the Parameter object's fields
    dependenciesInstalled,  \* flag, Logic.py:40
    is_setup,               \* flag, Logic.py:41
    engine,                 \* the current engine: bound parameter, connections
    history,                \* engines constructed / connections made so far
    fs,                     \* the paths that exist below the cache root
    importable,             \* whether SlicerNNUNetLib can be imported
    call                    \* the last call: inputs, state before, outcome

vars == <<segmentationLogic, modelParameters, dependenciesInstalled, is_setup,
          engine, history, fs, importable, call>>

----------------------------------------------------------------------------
(* Bounds *)

\* setup() constructs a new engine at each run; runs are capped here.
MaxEngines == 3

\* Longest list of release assets the repository query returns.
MaxAssets == 2

----------------------------------------------------------------------------
(* Constants of the program *)

MODEL_CHECKPOINT == "checkpoint_final.pth"
MODEL_WEIGHT_NAME == "Dataset001_hand"

\* Names a release asset may carry; only the first is MODEL_WEIGHT_NAME + ".zip".
AssetNames == {"Dataset001_hand.zip", "dataset001_hand.zip"}

\* Status codes of the HTTP GET (requests: raise_for_status raises from 400 on).
HttpStatuses == {200, 404, 500}

Channels == {"progressInfo", "errorOccurred", "inferenceFinished"}

\* Paths, relative to slicer.app.cachePath.
CacheDir == "handCBCT"
ModelDir == "handCBCT/Model"
WeightDir == "handCBCT/Model/Dataset001_hand"
ZipFile == "handCBCT/Model/Dataset001_hand.zip"

Parent(p) ==
    CASE p = ModelDir -> CacheDir
      [] p = WeightDir -> ModelDir
      [] p = ZipFile -> ModelDir
      [] OTHER -> "root"

RECURSIVE Ancestors(_)
Ancestors(p) == IF Parent(p) = "root" THEN {} ELSE {Parent(p)} \cup Ancestors(Parent(p))

\* The filesystems that can exist: every path has its parents.
Filesystems ==
    {f \in SUBSET {CacheDir, ModelDir, WeightDir, ZipFile} :
        \A p \in f : Ancestors(p) \subseteq f}

NoneParams == [id |-> 0, modelPath |-> "None", checkPointName |-> "None"]

NoEngine == [parameter |-> 0, connections |-> [c \in Channels |-> 0]]

----------------------------------------------------------------------------
(* Frames and exceptions *)

Raise(s, e) == [s EXCEPT !.exc = e]

Ev(s, e) == [s EXCEPT !.events = Append(@, e)]

Return(s, v) == [s EXCEPT !.ret = v]

\* The statement after s: its outcome r, unless s left an exception pending.
Then(s, r) == IF s.exc # "none" THEN s ELSE r


Evs(s, es) == [s EXCEPT !.events = @ \o es]

True == "True"
False == "False"
PyBool(b) == IF b THEN True ELSE False

----------------------------------------------------------------------------
(* Library calls *)

\* pathlib.Path.mkdir(mode=0o777, parents=False, exist_ok=False): any other
\* keyword is a TypeError, raised before the filesystem is touched.
Mkdir(s, path, kwargs) ==
    IF ~(kwargs \subseteq {"mode", "parents", "exist_ok"})
    THEN Raise(s, "TypeError")
    ELSE IF path \in s.fs
    THEN IF "exist_ok" \in kwargs THEN s ELSE Raise(s, "FileExistsError")
    ELSE IF "parents" \in kwargs
    THEN [s EXCEPT !.fs = @ \cup Ancestors(path) \cup {path}]
    ELSE IF Ancestors(path) \subseteq s.fs
    THEN [s EXCEPT !.fs = @ \cup {path}]
    ELSE Raise(s, "FileNotFoundError")

\* shutil.rmtree(path): removes the tree, FileNotFoundError when it is absent.
Rmtree(s, path) ==
    IF path \notin s.fs
    THEN Raise(s, "FileNotFoundError")
    ELSE [Ev(s, "rmtree") EXCEPT
            !.fs = {p \in @ : p # path /\ path \notin Ancestors(p)}]

\* open(path, "wb") and the chunked writes: the file exists afterwards; the
\* directory holding it must exist.
WriteFile(s, path) ==
    IF ~(Ancestors(path) \subseteq s.fs)
    THEN Raise(s, "FileNotFoundError")
    ELSE [Ev(s, "write zip") EXCEPT !.fs = @ \cup {path}]

\* zipfile.ZipFile(zipPath, "r").extractall(target): a corrupt archive is a
\* BadZipFile when it is opened; extraction creates the target directory.
ExtractAll(s, archiveOk, target) ==
    IF ~archiveOk
    THEN Raise(s, "BadZipFile")
    ELSE [Ev(s, "extractall") EXCEPT !.fs = @ \cup Ancestors(target) \cup {target}]

\* A call of a function object with nargs positional arguments where the
\* def lists nparams required parameters.
PyCall(s, nparams, nargs, body) ==
    IF nargs # nparams THEN Raise(s, "TypeError") ELSE body

----------------------------------------------------------------------------
(* handCBCTLogic *)

\* @staticmethod def getCachePath(): Path(slicer.app.cachePath) / "handCBCT"
getCachePath(s, nargs) ==
    PyCall(s, 0, nargs, Return(s, CacheDir))

\* @staticmethod def getModelPath(self): self.getCachePath() / "Model".
\* A staticmethod is not bound: obj.getModelPath() passes no argument, so
\* nargs is what the call site writes between the parentheses.
getModelPath(s, nargs) ==
    LET a == getCachePath(s, 0)
    IN  PyCall(s, 1, nargs, Then(a, Return(a, ModelDir)))

\* property weightsExist
weightsExist(s) ==
    LET a == getModelPath(s, 0)
    IN  Then(a, Return(a, PyBool(WeightDir \in a.fs)))

\* property hasValidParams; valid is what Parameter.isValid() answers.
hasValidParams(s, valid) ==
    IF s.modelParameters # NoneParams
    THEN Return(Evs(s, <<"isValid", "print">>), PyBool(valid))
    ELSE Return(s, False)

_reloadParameters(s) ==
    IF s.segmentationLogic # 0 /\ s.modelParameters # NoneParams
    THEN [Ev(s, "setParameter") EXCEPT !.engine.parameter = s.modelParameters.id]
    ELSE s

\* installDependencies with the flag set before the import is tried.
installDependencies_FlagFirst(s, env) ==
    LET a == Ev([s EXCEPT !.dependenciesInstalled = TRUE], "import SlicerNNUNetLib")
    IN  IF ~env.importable
        THEN Raise(Ev(a, "errorDisplay"), "ModuleNotFoundError")
        ELSE Evs(a, <<"InstallLogic()", "progressInfo.connect",
                      "setupPythonRequirements">>)

installDependencies(s, env) ==
    LET a == Ev(s, "import SlicerNNUNetLib")
    IN  IF ~env.importable
        THEN Raise(Ev(a, "errorDisplay"), "ModuleNotFoundError")
        ELSE [Evs(a, <<"InstallLogic()", "progressInfo.connect",
                       "setupPythonRequirements">>)
                EXCEPT !.dependenciesInstalled = TRUE]

\* from SlicerNNUNetLib import ...
ImportFrom(s, env) ==
    IF env.importable THEN s ELSE Raise(s, "ModuleNotFoundError")

Connect(s, ch) ==
    [Ev(s, "connect") EXCEPT !.engine.connections[ch] = @ + 1,
                             !.history.connections[ch] = @ + 1]

\* self.segmentationLogic = SegmentationLogic()
NewEngine(s) ==
    [Ev(s, "SegmentationLogic()") EXCEPT
        !.history.engines = @ + 1,
        !.segmentationLogic = s.history.engines + 1,
        !.engine = NoEngine]

\* self.modelParameters = Parameter()
NewParameter(s) ==
    [Ev(s, "Parameter()") EXCEPT
        !.modelParameters = [id |-> s.history.engines,
                             modelPath |-> "default",
                             checkPointName |-> "default"]]

SetModelParameters(s, modelPath) ==
    IF s.modelParameters = NoneParams
    THEN Raise(s, "AttributeError")
    ELSE [s EXCEPT !.modelParameters.modelPath = modelPath,
                   !.modelParameters.checkPointName = MODEL_CHECKPOINT]

loadWeights(s, env) ==
    LET a == IF ~s.dependenciesInstalled THEN installDependencies(s, env) ELSE s
        b == Then(a, getModelPath(a, 0))
        c == Then(b, Mkdir(b, b.ret, {"parents", "exists_ok"}))
        d == Then(c, SetModelParameters(c, c.ret))
        e == Then(d, Ev(hasValidParams(d, env.paramsValid), "messageBox"))
        f == Then(e, _reloadParameters(e))
    IN  Then(f, Return(f, "None"))

setup(s, env) ==
    LET a == IF ~s.dependenciesInstalled THEN installDependencies(s, env) ELSE s
        b == Then(a, ImportFrom(a, env))
        c == Then(b, NewEngine(b))
        d == Then(c, Connect(Connect(Connect(c, "progressInfo"), "errorOccurred"),
                             "inferenceFinished"))
        e == Then(d, ImportFrom(d, env))
        f == Then(e, NewParameter(e))
        g == Then(f, loadWeights(f, env))
    IN  Then(g, Return([g EXCEPT !.is_setup = TRUE], "None"))


\* The name the asset filter compares with: MODEL_WEIGHT_NAME + ".zip".
WeightArchiveName == "Dataset001_hand.zip"

\* The filter with the names compared without regard to case.
MatchingAssets_IgnoreCase(releaseAssets) ==
    SelectSeq([i \in 1..Len(releaseAssets) |-> i],
              LAMBDA i : releaseAssets[i] \in {"Dataset001_hand.zip",
                                               "dataset001_hand.zip"})

\* [asset for release in repo.get_releases() for asset in release.get_assets()
\*  if asset.name == MODEL_WEIGHT_NAME + ".zip"]: the positions, in enumeration
\* order, of the assets that carry exactly that name.
MatchingAssets(releaseAssets) ==
    SelectSeq([i \in 1..Len(releaseAssets) |-> i],
              LAMBDA i : releaseAssets[i] = WeightArchiveName)

\* gh.get_repo(...) and the enumeration of the releases and their assets.
QueryAssets(s, env) ==
    LET a == Evs(s, <<"Github()", "get_repo">>)
    IN  IF ~env.queryOk
        THEN Raise(a, "GithubException")
        ELSE Ev(a, "get_releases")

\* url = assets[0].browser_download_url; an asset's url is its position in
\* the enumeration (0: no url yet).
FirstAssetUrl(s, env) ==
    LET assets == MatchingAssets(env.releaseAssets)
    IN  IF Len(assets) = 0
        THEN Raise(s, "IndexError")
        ELSE [s EXCEPT !.url = assets[1]]

\* session.get(url, stream = True); response.raise_for_status()
HttpGet(s, env) ==
    LET a == [Ev(s, "GET") EXCEPT !.fetched = s.url]
    IN  IF env.httpStatus >= 400 THEN Raise(a, "HTTPError") ELSE a

\* The branch taken when the weights are absent or a new download is forced.
Fetch(s, env, downloadAgain) ==
    LET a == IF downloadAgain THEN Rmtree(s, WeightDir) ELSE s
        b == Then(a, Ev(a, "messageBox"))
        c == Then(b, HttpGet(b, env))
        d == Then(c, WriteFile(c, ZipFile))
        e == Then(d, ExtractAll(d, env.archiveOk, WeightDir))
    IN  Then(e, Return(e, True))

downloadWeights(s, env, downloadAgain) ==
    LET a == QueryAssets(s, env)
        b == Then(a, FirstAssetUrl(a, env))
        c == Then(b, getModelPath(b, 0))
    IN  Then(c, IF WeightDir \notin c.fs \/ downloadAgain
                THEN Fetch(c, env, downloadAgain)
                ELSE Return(c, False))

StartSegmentation(s) ==
    IF s.segmentationLogic = 0
    THEN Raise(s, "AttributeError")
    ELSE Evs(s, <<"startSegmentation", "waitForSegmentationFinished">>)

\* inputVolume and outputSegment are the truth values of the two nodes.
process(s, env, inputVolume, outputSegment) ==
    LET a == IF ~s.is_setup THEN setup(s, env) ELSE s
        b == Then(a, IF ~inputVolume \/ ~outputSegment
                     THEN Raise(a, "ValueError")
                     ELSE a)
        c == Then(b, StartSegmentation(b))
    IN  Then(c, Return(c, "None"))

----------------------------------------------------------------------------
(* The state machine *)

\* The object and the filesystem, as a method finds them.
Self ==
    [segmentationLogic |-> segmentationLogic,
     modelParameters |-> modelParameters,
     dependenciesInstalled |-> dependenciesInstalled,
     is_setup |-> is_setup,
     engine |-> engine,
     history |-> history,
     fs |-> fs]

Frame ==
    [segmentationLogic |-> segmentationLogic,
     modelParameters |-> modelParameters,
     dependenciesInstalled |-> dependenciesInstalled,
     is_setup |-> is_setup,
     engine |-> engine,
     history |-> history,
     fs |-> fs,
     url |-> 0,
     fetched |-> 0,
     events |-> << >>,
     exc |-> "none",
     ret |-> "None"]

\* The inputs a method does not read have these values.
Env(queryOk, releaseAssets, httpStatus, archiveOk, paramsValid) ==
    [importable |-> importable,
     queryOk |-> queryOk,
     releaseAssets |-> releaseAssets,
     httpStatus |-> httpStatus,
     archiveOk |-> archiveOk,
     paramsValid |-> paramsValid]

LocalEnv(paramsValid) == Env(TRUE, << >>, 200, TRUE, paramsValid)

AssetLists ==
    UNION {[1..n -> AssetNames] : n \in 0..MaxAssets}

\* The method has run to its end or to its exception: the object and the
\* filesystem are what the frame holds, and the call is recorded.
Finish(op, env, downloadAgain, inputVolume, outputSegment, s) ==
    /\ segmentationLogic' = s.segmentationLogic
    /\ modelParameters' = s.modelParameters
    /\ dependenciesInstalled' = s.dependenciesInstalled
    /\ is_setup' = s.is_setup
    /\ engine' = s.engine
    /\ history' = s.history
    /\ fs' = s.fs
    /\ importable' = importable
    /\ call' = [op |-> op, env |-> env, downloadAgain |-> downloadAgain,
                inputVolume |-> inputVolume, outputSegment |-> outputSegment,
                pre |-> Self, url |-> s.url, fetched |-> s.fetched,
                events |-> s.events, exc |-> s.exc, ret |-> s.ret]

Init ==
    /\ segmentationLogic = 0
    /\ modelParameters = NoneParams
    /\ dependenciesInstalled = FALSE
    /\ is_setup = FALSE
    /\ engine = NoEngine
    /\ history = [engines |-> 0, connections |-> [c \in Channels |-> 0]]
    /\ fs \in Filesystems
    /\ importable \in BOOLEAN
    /\ call = [op |-> "__init__", env |-> LocalEnv(TRUE), downloadAgain |-> FALSE,
               inputVolume |-> FALSE, outputSegment |-> FALSE,
               pre |-> Self, url |-> 0, fetched |-> 0,
               events |-> << >>, exc |-> "none", ret |-> "None"]

InstallDependencies ==
    Finish("installDependencies", LocalEnv(TRUE), FALSE, FALSE, FALSE,
           installDependencies(Frame, LocalEnv(TRUE)))

Setup ==
    /\ history.engines < MaxEngines
    /\ \E valid \in BOOLEAN :
        Finish("setup", LocalEnv(valid), FALSE, FALSE, FALSE,
               setup(Frame, LocalEnv(valid)))

LoadWeights ==
    \E valid \in BOOLEAN :
        Finish("loadWeights", LocalEnv(valid), FALSE, FALSE, FALSE,
               loadWeights(Frame, LocalEnv(valid)))

DownloadWeights ==
    \E downloadAgain \in BOOLEAN, queryOk \in BOOLEAN, assets \in AssetLists,
       status \in HttpStatuses, archiveOk \in BOOLEAN :
        LET env == Env(queryOk, assets, status, archiveOk, TRUE)
        IN  Finish("downloadWeights", env, downloadAgain, FALSE, FALSE,
                   downloadWeights(Frame, env, downloadAgain))

Process ==
    /\ history.engines < MaxEngines
    /\ \E inputVolume \in BOOLEAN, outputSegment \in BOOLEAN, valid \in BOOLEAN :
        Finish("process", LocalEnv(valid), FALSE, inputVolume, outputSegment,
               process(Frame, LocalEnv(valid), inputVolume, outputSegment))

WeightsExist ==
    Finish("weightsExist", LocalEnv(TRUE), FALSE, FALSE, FALSE, weightsExist(Frame))

HasValidParams ==
    \E valid \in BOOLEAN :
        Finish("hasValidParams", LocalEnv(valid), FALSE, FALSE, FALSE,
               hasValidParams(Frame, valid))

Next ==
    \/ InstallDependencies
    \/ Setup
    \/ LoadWeights
    \/ DownloadWeights
    \/ Process
    \/ WeightsExist
    \/ HasValidParams

Spec == Init /\ [][Next]_vars

----------------------------------------------------------------------------
(* Properties *)

\* How often the last call made the collaborator call e.
Count(e) == Cardinality({i \in 1..Len(call.events) : call.events[i] = e})

\* The position of the first e among the last call's events, 0 when absent.
FirstIndex(e) ==
    IF Count(e) = 0 THEN 0
    ELSE CHOOSE i \in 1..Len(call.events) :
            /\ call.events[i] = e
            /\ \A j \in 1..(i - 1) : call.events[j] # e

\* The calls that go over the network.
NetworkCalls == Count("get_repo") + Count("get_releases") + Count("GET")

\* Some release asset of the last call is named exactly Dataset001_hand.zip.
AssetOffered ==
    \E i \in 1..Len(call.env.releaseAssets) :
        call.env.releaseAssets[i] = "Dataset001_hand.zip"

Downloaded == call.op = "downloadWeights"

\* Query, GET and extraction all succeed.
RemoteSucceeds ==
    /\ call.env.queryOk
    /\ AssetOffered
    /\ call.env.httpStatus = 200
    /\ call.env.archiveOk

\* C1: a downloadWeights call without downloadAgain that finds the weight
\* directory present returns False, changes nothing on disk and makes no
\* network call.
C1_PresentIsNoOp ==
    (Downloaded /\ ~call.downloadAgain /\ WeightDir \in call.pre.fs)
        => /\ call.exc = "none"
           /\ call.ret = False
           /\ fs = call.pre.fs
           /\ NetworkCalls = 0

\* C2: a downloadWeights call with downloadAgain whose query, GET and
\* extraction succeed returns True with the weight directory present, whether
\* or not the directory existed; an existing directory is removed before the GET.
C2_ForcedRedownload ==
    (Downloaded /\ call.downloadAgain /\ RemoteSucceeds)
        => /\ call.exc = "none"
           /\ call.ret = True
           /\ WeightDir \in fs
           /\ Count("GET") = 1
           /\ WeightDir \in call.pre.fs
                => (Count("rmtree") = 1 /\ FirstIndex("rmtree") < FirstIndex("GET"))

\* C3: a process call made before setup, with the extension importable and
\* valid nodes, runs the setup to its end (is_setup, parameters built with the
\* model path and the checkpoint name and bound to the engine) before it starts
\* the segmentation; the segmentation is never started on an unbound engine.
C3_ProcessRunsSetup ==
    /\ (call.op = "process" /\ ~call.pre.is_setup /\ importable
            /\ call.inputVolume /\ call.outputSegment)
        => /\ call.exc = "none"
           /\ is_setup
           /\ dependenciesInstalled
           /\ segmentationLogic # 0
           /\ modelParameters.modelPath = ModelDir
           /\ modelParameters.checkPointName = MODEL_CHECKPOINT
           /\ engine.parameter = modelParameters.id
           /\ Count("startSegmentation") = 1
           /\ FirstIndex("setParameter") < FirstIndex("startSegmentation")
    /\ Count("startSegmentation") > 0 => engine.parameter # 0

\* C4: the setup sequence runs at most once for the object: a setup call made
\* when is_setup holds changes nothing, at most one engine is ever constructed
\* and no notification channel is connected more than once.
C4_SetupOnce ==
    /\ (call.op \in {"setup", "process"} /\ call.pre.is_setup)
        => /\ segmentationLogic = call.pre.segmentationLogic
           /\ modelParameters = call.pre.modelParameters
           /\ engine = call.pre.engine
    /\ history.engines <= 1
    /\ \A c \in Channels : history.connections[c] <= 1

\* C5: a process call with a missing input volume or output segmentation
\* raises the invalid-input error before anything else is done: no collaborator
\* is called and the object is as it was.
C5_InvalidInputFirst ==
    (call.op = "process" /\ (~call.inputVolume \/ ~call.outputSegment))
        => /\ call.exc = "ValueError"
           /\ call.events = << >>
           /\ Self = call.pre

\* C6: a downloadWeights call without downloadAgain that finds the weight
\* directory absent, and whose query, GET and extraction succeed, returns True
\* with the directory present; False is returned only when it was present.
C6_AbsentIsFetched ==
    /\ (Downloaded /\ ~call.downloadAgain /\ WeightDir \notin call.pre.fs
            /\ RemoteSucceeds)
        => /\ call.exc = "none"
           /\ call.ret = True
           /\ WeightDir \in fs
           /\ Count("GET") = 1
    /\ (Downloaded /\ call.exc = "none" /\ call.ret = False)
        => WeightDir \in call.pre.fs

\* C7: when the release query answers and no asset is named exactly
\* Dataset001_hand.zip, downloadWeights fails at the asset lookup, for either
\* value of downloadAgain and with the weights present or not: no GET is
\* issued and nothing is written, removed or extracted.
C7_NoAssetFails ==
    (Downloaded /\ call.env.queryOk /\ ~AssetOffered)
        => /\ call.exc = "IndexError"
           /\ Count("GET") = 0
           /\ Count("write zip") = 0
           /\ Count("extractall") = 0
           /\ fs = call.pre.fs

\* A forced download, with the weights on disk, that finds only assets whose
\* names nearly match, and fails at the lookup.
C7_Witness ==
    /\ Downloaded
    /\ call.downloadAgain
    /\ WeightDir \in call.pre.fs
    /\ call.env.queryOk
    /\ call.env.releaseAssets = <<"dataset001_hand.zip", "dataset001_hand.zip">>
    /\ call.exc = "IndexError"

\* C8: when the server answers the GET for the archive with an error status,
\* downloadWeights fails with the HTTP error after that one GET, and neither
\* the zip file nor the weight directory is created by the call.
C8_HttpErrorFails ==
    (Downloaded /\ call.env.queryOk /\ AssetOffered
        /\ (WeightDir \notin call.pre.fs \/ call.downloadAgain)
        /\ call.env.httpStatus >= 400)
        => /\ call.exc = "HTTPError"
           /\ Count("GET") = 1
           /\ ZipFile \in fs <=> ZipFile \in call.pre.fs
           /\ WeightDir \in fs => WeightDir \in call.pre.fs

\* C9: while the extension cannot be imported, every call that needs it fails
\* with ModuleNotFoundError after one import attempt and one error dialog, and
\* the object stays as constructed: both flags false, no engine, no
\* parameters, no connection.
C9_MissingDependencyAborts ==
    ~importable
        => /\ ~dependenciesInstalled
           /\ ~is_setup
           /\ segmentationLogic = 0
           /\ modelParameters = NoneParams
           /\ history.engines = 0
           /\ \A c \in Channels : history.connections[c] = 0
           /\ call.op \in {"installDependencies", "setup", "loadWeights", "process"}
                => /\ call.exc = "ModuleNotFoundError"
                   /\ Count("import SlicerNNUNetLib") = 1
                   /\ Count("errorDisplay") = 1
                   /\ Count("SegmentationLogic()") = 0
                   /\ Count("connect") = 0

\* A setup call that stopped at the failed import and its error dialog.
C9_Witness ==
    /\ ~importable
    /\ call.op = "setup"
    /\ call.exc = "ModuleNotFoundError"
    /\ call.events = <<"import SlicerNNUNetLib", "errorDisplay">>

\* C10: the directory step of loadWeights leaves the model directory and its
\* parents in place and raises nothing, whether the directory was absent or
\* already there.
C10_EnsureModelDirectory ==
    (call.op = "loadWeights" /\ importable)
        => /\ ModelDir \in fs
           /\ Ancestors(ModelDir) \subseteq fs
           /\ call.exc \notin {"TypeError", "FileExistsError", "FileNotFoundError"}

====
